---- MODULE Spec2Model ----
(***************************************************************************)
(* One /ws/transcribe session of backend/app/main.py: the handler          *)
(* websocket_transcribe, its two receive loops, the enrichment tasks it    *)
(* spawns, and process_transcript of backend/app/services/gemini_service.  *)
(*                                                                         *)
(* The session runs on one asyncio event loop.  A step of the model is     *)
(* the code one coroutine runs from the resumption of one await up to and  *)
(* including the call it suspends in next.  A write to a websocket takes   *)
(* effect at the call; the coroutine is suspended afterwards, so other     *)
(* coroutines run before it reads any shared variable again.               *)
(***************************************************************************)
EXTENDS Naturals, Sequences, FiniteSets

\* ------------------------------------------------------------------ bounds
\* How many frames the provider delivers to the provider loop in one session.
MaxProviderEvents == 1
\* How many frames the client delivers to the client loop in one session.
MaxClientFrames == 1

\* ------------------------------------------------------------------- text
\* A text is a sequence of characters; " " is the only whitespace used.
Blank == " "

RECURSIVE lstrip(_)
lstrip(s) == IF s # <<>> /\ Head(s) = Blank THEN lstrip(Tail(s)) ELSE s

RECURSIVE rstrip(_)
rstrip(s) ==
    IF s # <<>> /\ s[Len(s)] = Blank THEN rstrip(SubSeq(s, 1, Len(s) - 1)) ELSE s

\* str.strip()
strip(s) == rstrip(lstrip(s))

\* The texts a provider frame carries in its "text" field.
Texts == { <<>>, <<Blank>>, <<"a">>, <<Blank, "b", Blank>> }

\* -------------------------------------------------------------- dict access
\* dict.get(key, default) on a dict modelled as a record.
Get(d, k, default) == IF k \in DOMAIN d THEN d[k] ELSE default

\* ProcessingMode
STRICT == "strict"
BALANCED == "balanced"

VARIABLES
    env,                 \* how many frames the peers send, and which (fixed for a session)
    call,                \* a call of process_transcript made on its own: its arguments,
                         \* the prompt selected, what the service did, the dict returned
    hasKey,              \* bool(ELEVENLABS_API_KEY)
    pcMain,              \* where websocket_transcribe is suspended
    pcProv,              \* where receive_from_elevenlabs is suspended
    pcCli,               \* where receive_from_client is suspended
    should_stop,
    client_connected,
    current_mode,
    accumulated_transcript,
    provConn,            \* elevenlabs_ws: "none", "open", "dropped", "closed"
    clientConn,          \* the client websocket: "open" or "closed" (websocket.close())
    pendingText,         \* local `text` of the provider loop across its final-transcript send
    pendingSeg,          \* the provider event that text came from
    tasks,               \* the process_with_gemini tasks, in creation order
    clientLog,           \* messages the client transport accepted, in order
    provOut,             \* frames written to the provider connection, in order
    guardWrites,         \* transport writes attempted by safe_send
    guardDropped,        \* a safe_send call returned False at the guard: "never",
                         \* "open" (before the handler returned) or "closed" (after)
    sendFailed,          \* some safe_send write raised
    connectAttempts,     \* calls of websockets.connect
    nProv,               \* provider frames taken by the provider loop
    nCli,                \* client frames taken by the client loop
    finalSegs,           \* provider events handled as a final transcript with non-empty text
    provExit,            \* how the provider loop ended
    cliExit              \* how the client loop ended

vars == << env, call, hasKey, pcMain, pcProv, pcCli, should_stop, client_connected,
           current_mode, accumulated_transcript, provConn, clientConn,
           pendingText, pendingSeg, tasks, clientLog, provOut, guardWrites,
           guardDropped, sendFailed, connectAttempts, nProv, nCli, finalSegs,
           provExit, cliExit >>

sessionVars == << should_stop, client_connected, current_mode, accumulated_transcript >>
guardVars == << client_connected, clientLog, guardWrites, guardDropped, sendFailed >>

\* The state once the connection is accepted, with peers bounded by e.
InitWith(e) ==
    /\ env = e
    /\ call = [pc |-> "idle"]
    /\ hasKey \in BOOLEAN
    /\ pcMain = "accept"
    /\ pcProv = "idle"
    /\ pcCli = "idle"
    /\ should_stop = FALSE
    /\ client_connected = TRUE
    /\ current_mode = BALANCED
    /\ accumulated_transcript = <<>>
    /\ provConn = "none"
    /\ clientConn = "open"
    /\ pendingText = <<>>
    /\ pendingSeg = 0
    /\ tasks = <<>>
    /\ clientLog = <<>>
    /\ provOut = <<>>
    /\ guardWrites = 0
    /\ guardDropped = "never"
    /\ sendFailed = FALSE
    /\ connectAttempts = 0
    /\ nProv = 0
    /\ nCli = 0
    /\ finalSegs = {}
    /\ provExit = "running"
    /\ cliExit = "running"

\* ------------------------------------------------------------ client sends
\* websocket.send_json(data) called directly: the transport accepts the write (ok)
\* or raises; the callers swallow the exception.
send_json(data, ok) ==
    clientLog' = IF ok THEN Append(clientLog, data) ELSE clientLog

\* safe_send without its guard: the write is attempted whatever client_connected is.
safe_send_unguarded(data, ok) ==
    /\ guardWrites' = guardWrites + 1
    /\ clientLog' = IF ok THEN Append(clientLog, data) ELSE clientLog
    /\ client_connected' = (client_connected /\ ok)
    /\ sendFailed' = (sendFailed \/ ~ok)
    /\ UNCHANGED guardDropped

\* safe_send(data): no write once client_connected is False; a write that raises
\* sets client_connected to False.  Never raises.
safe_send(data, ok) ==
    IF ~client_connected
    THEN /\ guardDropped' = IF pcMain = "closed" THEN "closed"
                            ELSE IF guardDropped = "never" THEN "open" ELSE guardDropped
         /\ UNCHANGED << client_connected, clientLog, guardWrites, sendFailed >>
    ELSE /\ guardWrites' = guardWrites + 1
         /\ clientLog' = IF ok THEN Append(clientLog, data) ELSE clientLog
         /\ client_connected' = ok
         /\ sendFailed' = (sendFailed \/ ~ok)
         /\ UNCHANGED guardDropped

\* What safe_send(data) returns when its write meets `ok`.
safe_send_result(ok) == client_connected /\ ok

\* ------------------------------------------------------- outbound messages
\* `ev` and `task` are not on the wire: they name the provider event or the
\* enrichment task a message belongs to.
MsgConnected == [type |-> "connected"]
MsgConfigError == [type |-> "error", message |-> "ElevenLabs API key not configured", ev |-> 0]
MsgHandshakeError(detail) == [type |-> "error", message |-> detail, ev |-> 0]
MsgSessionStarted(ev) == [type |-> "session_started", ev |-> ev]
MsgTranscript(text, final, ev) ==
    [type |-> "transcript", text |-> text, is_final |-> final, ev |-> ev]
MsgProviderError(ev) == [type |-> "error", message |-> "provider", ev |-> ev]
MsgProcessing(t) == [type |-> "processing", task |-> t]

\* ------------------------------------------------- websocket_transcribe
\* finally without the close of the provider connection.
FinallyLeavesOpen ==
    /\ should_stop' = TRUE
    /\ pcMain' = "closed"
    /\ UNCHANGED provConn

\* finally: should_stop = True; if elevenlabs_ws: await elevenlabs_ws.close()
Finally ==
    /\ should_stop' = TRUE
    /\ IF provConn = "none"
       THEN pcMain' = "closed" /\ UNCHANGED provConn
       ELSE pcMain' = "closing" /\ provConn' = "closed"

\* The handler without the credential check: it goes on to connect.
MainAcceptUnchecked ==
    /\ pcMain = "accept"
    /\ pcMain' = "connecting"
    /\ connectAttempts' = connectAttempts + 1
    /\ UNCHANGED << env, call, hasKey, pcProv, pcCli, sessionVars, provConn, clientConn,
                    pendingText, pendingSeg, tasks, clientLog, provOut, guardWrites,
                    guardDropped, sendFailed, nProv, nCli, finalSegs, provExit, cliExit >>

\* await websocket.accept() has returned.  Without the credential: send the
\* configuration error; with it: set up the session and call websockets.connect.
MainAccept ==
    /\ pcMain = "accept"
    /\ IF ~hasKey
       THEN \E ok \in BOOLEAN :
              /\ send_json(MsgConfigError, ok)
              /\ pcMain' = IF ok THEN "nokey_sent" ELSE "closed"
              /\ UNCHANGED connectAttempts
       ELSE /\ pcMain' = "connecting"
            /\ connectAttempts' = connectAttempts + 1
            /\ UNCHANGED clientLog
    /\ UNCHANGED << env, call, hasKey, pcProv, pcCli, sessionVars, provConn, clientConn,
                    pendingText, pendingSeg, tasks, provOut, guardWrites,
                    guardDropped, sendFailed, nProv, nCli, finalSegs, provExit, cliExit >>

\* The error was sent: await websocket.close(), then return.
MainNoKeyClose ==
    /\ pcMain = "nokey_sent"
    /\ clientConn' = "closed"
    /\ pcMain' = "closed"
    /\ UNCHANGED << env, call, hasKey, pcProv, pcCli, sessionVars, provConn, pendingText,
                    pendingSeg, tasks, clientLog, provOut, guardWrites,
                    guardDropped, sendFailed, connectAttempts, nProv, nCli,
                    finalSegs, provExit, cliExit >>

\* The result of the `connected` send ignored: the handler goes on to the loops.
MainConnectOkIgnoresResult ==
    /\ pcMain = "connecting"
    /\ provConn' = "open"
    /\ \E ok \in BOOLEAN : safe_send(MsgConnected, ok)
    /\ pcMain' = "connected_ok"
    /\ UNCHANGED << env, call, hasKey, pcProv, pcCli, should_stop, current_mode,
                    accumulated_transcript, clientConn, pendingText, pendingSeg,
                    tasks, provOut, connectAttempts, nProv, nCli, finalSegs,
                    provExit, cliExit >>

\* websockets.connect returned: send `connected` through safe_send.
MainConnectOk ==
    /\ pcMain = "connecting"
    /\ provConn' = "open"
    /\ \E ok \in BOOLEAN :
         /\ safe_send(MsgConnected, ok)
         /\ pcMain' = IF safe_send_result(ok) THEN "connected_ok" ELSE "connected_failed"
    /\ UNCHANGED << env, call, hasKey, pcProv, pcCli, should_stop, current_mode,
                    accumulated_transcript, clientConn, pendingText, pendingSeg,
                    tasks, provOut, connectAttempts, nProv, nCli, finalSegs,
                    provExit, cliExit >>

\* The handshake failure swallowed: the error is sent and the handler goes on as
\* if the connection stood.
MainConnectFailsGoesOn ==
    /\ pcMain = "connecting"
    /\ \E detail \in {"ElevenLabs HTTP status", "exception text"}, ok \in BOOLEAN :
         send_json(MsgHandshakeError(detail), ok)
    /\ pcMain' = "connected_ok"
    /\ UNCHANGED << env, call, hasKey, pcProv, pcCli, sessionVars, provConn, clientConn,
                    pendingText, pendingSeg, tasks, provOut, guardWrites,
                    guardDropped, sendFailed, connectAttempts, nProv, nCli,
                    finalSegs, provExit, cliExit >>

\* websockets.connect raised (InvalidStatusCode, or any other exception): the
\* handler sends an `error` with the detail, bypassing safe_send.
MainConnectFails ==
    /\ pcMain = "connecting"
    /\ \E detail \in {"ElevenLabs HTTP status", "exception text"}, ok \in BOOLEAN :
         send_json(MsgHandshakeError(detail), ok)
    /\ pcMain' = "handler_sent"
    /\ UNCHANGED << env, call, hasKey, pcProv, pcCli, sessionVars, provConn, clientConn,
                    pendingText, pendingSeg, tasks, provOut, guardWrites,
                    guardDropped, sendFailed, connectAttempts, nProv, nCli,
                    finalSegs, provExit, cliExit >>

\* The `connected` send was not delivered: return, through finally.
MainConnectedFailed ==
    /\ pcMain = "connected_failed"
    /\ Finally
    /\ UNCHANGED << env, call, hasKey, pcProv, pcCli, client_connected, current_mode,
                    accumulated_transcript, clientConn, pendingText, pendingSeg,
                    tasks, clientLog, provOut, guardWrites, guardDropped,
                    sendFailed, connectAttempts, nProv, nCli, finalSegs, provExit, cliExit >>

\* asyncio.gather(receive_from_elevenlabs(), receive_from_client()): both start.
MainStartLoops ==
    /\ pcMain = "connected_ok"
    /\ pcMain' = "gather"
    /\ pcProv' = "wait"
    /\ pcCli' = "recv"
    /\ UNCHANGED << env, call, hasKey, sessionVars, provConn, clientConn, pendingText,
                    pendingSeg, tasks, clientLog, provOut, guardWrites,
                    guardDropped, sendFailed, connectAttempts, nProv, nCli,
                    finalSegs, provExit, cliExit >>

\* gather returns when both loops have ended; then finally.
MainGatherDone ==
    /\ pcMain = "gather"
    /\ pcProv = "done"
    /\ pcCli = "done"
    /\ Finally
    /\ UNCHANGED << env, call, hasKey, pcProv, pcCli, client_connected, current_mode,
                    accumulated_transcript, clientConn, pendingText, pendingSeg,
                    tasks, clientLog, provOut, guardWrites, guardDropped,
                    sendFailed, connectAttempts, nProv, nCli, finalSegs, provExit, cliExit >>

\* The except handler's send has returned: finally, with nothing to close.
MainHandlerDone ==
    /\ pcMain = "handler_sent"
    /\ Finally
    /\ UNCHANGED << env, call, hasKey, pcProv, pcCli, client_connected, current_mode,
                    accumulated_transcript, clientConn, pendingText, pendingSeg,
                    tasks, clientLog, provOut, guardWrites, guardDropped,
                    sendFailed, connectAttempts, nProv, nCli, finalSegs, provExit, cliExit >>

\* elevenlabs_ws.close() has returned: "Cleanup done".
MainCloseDone ==
    /\ pcMain = "closing"
    /\ pcMain' = "closed"
    /\ UNCHANGED << env, call, hasKey, pcProv, pcCli, sessionVars, provConn, clientConn,
                    pendingText, pendingSeg, tasks, clientLog, provOut,
                    guardWrites, guardDropped, sendFailed, connectAttempts, nProv,
                    nCli, finalSegs, provExit, cliExit >>

MainStep ==
    \/ MainAccept
    \/ MainNoKeyClose
    \/ MainConnectOk
    \/ MainConnectFails
    \/ MainConnectedFailed
    \/ MainStartLoops
    \/ MainGatherDone
    \/ MainHandlerDone
    \/ MainCloseDone

\* ------------------------------------------------------- provider frames
\* A frame is described by what json.loads and the dict lookups make of it:
\*   json   "invalid" (not JSON), "nonobject" (JSON, but no dict), "object"
\*   mkind  the "message_type" field: "missing", "nonstr" (null, a number), "str"
\*   mtype  the message type, as its words ("auth_error" is <<"auth", "error">>)
\*   tkind  the "text" field: "missing", "nonstr", "str"
\*   text   the text
Frame(json, mkind, mtype, tkind, text) ==
    [json |-> json, mkind |-> mkind, mtype |-> mtype, tkind |-> tkind, text |-> text]

T_SESSION_STARTED == <<"session", "started">>
T_PARTIAL == <<"partial", "transcript">>
T_COMMITTED == <<"committed", "transcript">>
T_COMMITTED_TS == <<"committed", "transcript", "with", "timestamps">>

FinalFrames ==
    { Frame("object", "str", T_COMMITTED, "str", t) : t \in Texts }
    \cup { Frame("object", "str", T_COMMITTED_TS, "str", t) : t \in { <<"a">>, <<Blank>> } }

ProviderFrames ==
    FinalFrames
    \cup { Frame("invalid", "missing", <<>>, "missing", <<>>),
           Frame("nonobject", "missing", <<>>, "missing", <<>>),
           Frame("object", "str", T_SESSION_STARTED, "missing", <<>>),
           Frame("object", "str", T_PARTIAL, "str", <<"a">>),
           Frame("object", "str", T_PARTIAL, "str", <<>>),
           Frame("object", "str", T_PARTIAL, "missing", <<>>),
           Frame("object", "str", T_COMMITTED, "missing", <<>>),
           Frame("object", "str", T_COMMITTED, "nonstr", <<>>),
           Frame("object", "str", <<"auth", "error">>, "missing", <<>>),
           Frame("object", "str", <<"pong">>, "missing", <<>>),
           Frame("object", "missing", <<>>, "missing", <<>>),
           Frame("object", "nonstr", <<>>, "missing", <<>>) }

\* One frame of each kind the loop tells apart, for the specifications with fairness.
CoreProviderFrames ==
    { Frame("object", "str", T_COMMITTED, "str", t) : t \in { <<"a">>, <<Blank, "b", Blank>>, <<Blank>> } }
    \cup { Frame("invalid", "missing", <<>>, "missing", <<>>),
           Frame("nonobject", "missing", <<>>, "missing", <<>>),
           Frame("object", "str", T_SESSION_STARTED, "missing", <<>>) }

\* A final transcript, for the sessions that vary the client's frames.
ModeProviderFrames == { Frame("object", "str", T_COMMITTED, "str", <<"a">>) }

\* Final transcripts: plain, with blanks around it, and blank.
AccumulateProviderFrames ==
    { Frame("object", "str", T_COMMITTED, "str", t) : t \in { <<"a">>, <<Blank, "b", Blank>>, <<Blank>> } }

\* One frame of each kind the provider loop relays to the client.
OrderProviderFrames ==
    { Frame("object", "str", T_SESSION_STARTED, "missing", <<>>),
      Frame("object", "str", T_PARTIAL, "str", <<"a">>),
      Frame("object", "str", T_COMMITTED, "str", <<"a">>),
      Frame("object", "str", <<"auth", "error">>, "missing", <<>>) }

\* data.get("message_type", "")
msg_type(f) == IF f.mkind = "missing" THEN <<>> ELSE f.mtype

\* data.get("text", "")
text_of(f) == IF f.tkind = "missing" THEN <<>> ELSE f.text

\* "error" in msg_type, for a string msg_type
ContainsError(m) == \E i \in DOMAIN m : m[i] = "error"

\* What the body of the provider loop does with one frame:
\*   "skip"    json.JSONDecodeError, logged, or a frame no branch takes
\*   "raise"   an exception other than JSONDecodeError, which ends the loop
\*   "session_started", "partial", "final", "error"   the branch that sends
ProvBranch(f) ==
    IF f.json = "invalid" THEN "skip"
    ELSE IF f.json = "nonobject" THEN "raise"            \* data.get on a non-dict
    ELSE IF f.mkind # "nonstr" /\ msg_type(f) = T_SESSION_STARTED THEN "session_started"
    ELSE IF f.mkind # "nonstr" /\ msg_type(f) = T_PARTIAL
         THEN IF text_of(f) # <<>> THEN "partial" ELSE "skip"
    ELSE IF f.mkind # "nonstr" /\ msg_type(f) \in {T_COMMITTED, T_COMMITTED_TS}
         THEN IF f.tkind = "nonstr" THEN "raise"         \* .strip() on a non-string
              ELSE IF strip(text_of(f)) # <<>> THEN "final" ELSE "skip"
    ELSE IF f.mkind = "nonstr" THEN "raise"              \* "error" in <non-string>
    ELSE IF ContainsError(msg_type(f)) THEN "error"
    ELSE "skip"

\* if should_stop or not client_connected: break
ProvBreak == should_stop \/ ~client_connected

\* ------------------------------------------------ receive_from_elevenlabs
\* The next frame of `async for message in elevenlabs_ws`, and the loop body up
\* to the await of its send.
ProvRecv(f) ==
    /\ pcProv = "wait"
    /\ provConn = "open"
    /\ nProv < env.maxProv
    /\ nProv' = nProv + 1
    /\ IF ProvBreak
       THEN /\ pcProv' = "done"
            /\ provExit' = "break"
            /\ UNCHANGED << guardVars, pendingText, pendingSeg, finalSegs >>
       ELSE CASE ProvBranch(f) = "skip" ->
                   UNCHANGED << pcProv, provExit, guardVars, pendingText, pendingSeg,
                                finalSegs >>
              [] ProvBranch(f) = "raise" ->
                   /\ pcProv' = "done"
                   /\ provExit' = "exception"
                   /\ UNCHANGED << guardVars, pendingText, pendingSeg, finalSegs >>
              [] ProvBranch(f) = "session_started" ->
                   /\ \E ok \in BOOLEAN : safe_send(MsgSessionStarted(nProv + 1), ok)
                   /\ UNCHANGED << pcProv, provExit, pendingText, pendingSeg, finalSegs >>
              [] ProvBranch(f) = "partial" ->
                   /\ \E ok \in BOOLEAN :
                        safe_send(MsgTranscript(text_of(f), FALSE, nProv + 1), ok)
                   /\ UNCHANGED << pcProv, provExit, pendingText, pendingSeg, finalSegs >>
              [] ProvBranch(f) = "error" ->
                   /\ \E ok \in BOOLEAN : safe_send(MsgProviderError(nProv + 1), ok)
                   /\ UNCHANGED << pcProv, provExit, pendingText, pendingSeg, finalSegs >>
              [] ProvBranch(f) = "final" ->
                   /\ \E ok \in BOOLEAN :
                        safe_send(MsgTranscript(strip(text_of(f)), TRUE, nProv + 1), ok)
                   /\ pcProv' = "final_sent"
                   /\ pendingText' = strip(text_of(f))
                   /\ pendingSeg' = nProv + 1
                   /\ finalSegs' = finalSegs \cup {nProv + 1}
                   /\ UNCHANGED provExit
    /\ UNCHANGED << env, call, hasKey, pcMain, pcCli, should_stop, current_mode,
                    accumulated_transcript, provConn, clientConn, tasks, provOut,
                    connectAttempts, nCli, cliExit >>

\* A process_with_gemini(text) task as created: `seg` names the provider event it
\* is for, `at` is current_mode at its creation, `mode` the prompt its request is
\* made under ("none" until then).
NewTask(text, seg) ==
    [text |-> text, seg |-> seg, pc |-> "created", mode |-> "none", at |-> current_mode]

\* The dispatch without `if client_connected`.
DispatchUnguarded(text, seg) ==
    Append(tasks, NewTask(text, seg))

\* asyncio.create_task(process_with_gemini(text)), guarded by client_connected
Dispatch(text, seg) ==
    IF client_connected
    THEN Append(tasks, NewTask(text, seg))
    ELSE tasks

\* The task awaited instead of created: the loop stays suspended in it.
ProvAfterFinalAwaitsTask ==
    /\ pcProv = "final_sent"
    /\ accumulated_transcript' = accumulated_transcript \o <<Blank>> \o pendingText
    /\ tasks' = Dispatch(pendingText, pendingSeg)
    /\ pcProv' = "in_task"
    /\ UNCHANGED << env, call, hasKey, pcMain, pcCli, should_stop, client_connected,
                    current_mode, provConn, clientConn, pendingText, pendingSeg,
                    clientLog, provOut, guardWrites, guardDropped, sendFailed,
                    connectAttempts, nProv, nCli, finalSegs, provExit, cliExit >>

\* The accumulation moved under `if client_connected`, with the dispatch.
ProvAfterFinalAccumulatesIfAlive ==
    /\ pcProv = "final_sent"
    /\ accumulated_transcript' = IF client_connected
                                 THEN accumulated_transcript \o <<Blank>> \o pendingText
                                 ELSE accumulated_transcript
    /\ tasks' = Dispatch(pendingText, pendingSeg)
    /\ pcProv' = "wait"
    /\ UNCHANGED << env, call, hasKey, pcMain, pcCli, should_stop, client_connected,
                    current_mode, provConn, clientConn, pendingText, pendingSeg,
                    clientLog, provOut, guardWrites, guardDropped, sendFailed,
                    connectAttempts, nProv, nCli, finalSegs, provExit, cliExit >>

\* The final-transcript send has returned: accumulate, dispatch, next frame.
ProvAfterFinal ==
    /\ pcProv = "final_sent"
    /\ accumulated_transcript' = accumulated_transcript \o <<Blank>> \o pendingText
    /\ tasks' = Dispatch(pendingText, pendingSeg)
    /\ pcProv' = "wait"
    /\ UNCHANGED << env, call, hasKey, pcMain, pcCli, should_stop, client_connected,
                    current_mode, provConn, clientConn, pendingText, pendingSeg,
                    clientLog, provOut, guardWrites, guardDropped, sendFailed,
                    connectAttempts, nProv, nCli, finalSegs, provExit, cliExit >>

\* The provider connection is gone: the iteration ends or raises ConnectionClosed,
\* which is logged.
ProvSeesClosed ==
    /\ pcProv = "wait"
    /\ provConn # "open"
    /\ pcProv' = "done"
    /\ provExit' = "closed"
    /\ UNCHANGED << env, call, hasKey, pcMain, pcCli, sessionVars, provConn, clientConn,
                    pendingText, pendingSeg, tasks, clientLog, provOut,
                    guardWrites, guardDropped, sendFailed, connectAttempts, nProv,
                    nCli, finalSegs, cliExit >>

\* The provider (or the network) ends the connection.
ProviderDrops ==
    /\ provConn = "open"
    /\ provConn' = "dropped"
    /\ UNCHANGED << env, call, hasKey, pcMain, pcProv, pcCli, sessionVars, clientConn,
                    pendingText, pendingSeg, tasks, clientLog, provOut,
                    guardWrites, guardDropped, sendFailed, connectAttempts, nProv,
                    nCli, finalSegs, provExit, cliExit >>

\* --------------------------------------------------------- client frames
\* What websocket.receive() returns:
\*   kind   "disconnect" (type websocket.disconnect), "bytes", "text", or
\*          "raises" (receive itself raised: WebSocketDisconnect or another)
\*   json   of a text frame: "invalid", "nonobject", "object"
\*   type   data.get("type") of an object ("" when absent)
\*   mode   data.get("mode") of an object ("" when absent)
CFrame(kind, json, type, mode) ==
    [kind |-> kind, json |-> json, type |-> type, mode |-> mode]

ClientFrames ==
    { CFrame("disconnect", "invalid", "", ""),
      CFrame("raises", "invalid", "", ""),
      CFrame("bytes", "invalid", "", ""),
      CFrame("text", "invalid", "", ""),
      CFrame("text", "nonobject", "", ""),
      CFrame("text", "object", "stop", ""),
      CFrame("text", "object", "clear", ""),
      CFrame("text", "object", "set_mode", "strict"),
      CFrame("text", "object", "set_mode", "balanced"),
      CFrame("text", "object", "set_mode", "STRICT"),
      CFrame("text", "object", "set_mode", ""),
      CFrame("text", "object", "ping", ""),
      CFrame("text", "object", "", "") }

CoreClientFrames ==
    { CFrame("disconnect", "invalid", "", ""),
      CFrame("bytes", "invalid", "", ""),
      CFrame("text", "invalid", "", ""),
      CFrame("text", "nonobject", "", ""),
      CFrame("text", "object", "stop", ""),
      CFrame("text", "object", "set_mode", "strict") }

\* `clear`
AccumulateClientFrames == { CFrame("text", "object", "clear", "") }

\* Audio and `stop`.
AudioClientFrames ==
    { CFrame("bytes", "invalid", "", ""), CFrame("text", "object", "stop", "") }

\* The set_mode messages: "strict", another mode, another spelling, no mode.
ModeClientFrames == { f \in ClientFrames : f.type = "set_mode" }

\* The frames written to the provider; `n` names the client frame forwarded.
AudioChunk(n) == [message_type |-> "input_audio_chunk", commit |-> FALSE, n |-> n]
CommitMsg(n) == [message_type |-> "input_audio_chunk", commit |-> TRUE, n |-> n]

\* The mode compared without regard to case.
SetModeAnyCase(f) ==
    IF f.mode \in {"strict", "STRICT"} THEN STRICT ELSE BALANCED

\* mode = data.get("mode", "balanced");
\* ProcessingMode.STRICT if mode == "strict" else ProcessingMode.BALANCED
SetMode(f) ==
    LET mode == IF f.mode = "" THEN "balanced" ELSE f.mode
    IN  IF mode = "strict" THEN STRICT ELSE BALANCED

\* What the body of the client loop does with one frame:
\*   "disconnect"  the disconnect check: both flags, break
\*   "audio", "commit"   a write to the provider connection
\*   "set_mode", "clear"
\*   "ignore"      json.JSONDecodeError, or an object with no recognized type
\*   "raise"       an exception that leaves the loop through `except Exception`
CliBranch(f) ==
    IF f.kind = "raises" THEN "raise"
    ELSE IF f.kind = "disconnect" THEN "disconnect"
    ELSE IF f.kind = "bytes" THEN "audio"
    ELSE IF f.json = "invalid" THEN "ignore"
    ELSE IF f.json = "nonobject" THEN "raise"            \* data.get on a non-dict
    ELSE IF f.type = "stop" THEN "commit"
    ELSE IF f.type = "set_mode" THEN "set_mode"
    ELSE IF f.type = "clear" THEN "clear"
    ELSE "ignore"

\* while not should_stop and client_connected
CliLoopGoesOn(stop, alive) == ~stop /\ alive

\* The loop is left with the stop flag set, the client still marked alive.
CliStopsStillAlive(how) ==
    /\ should_stop' = TRUE
    /\ pcCli' = "done"
    /\ cliExit' = how
    /\ UNCHANGED client_connected

\* The loop is left with the client marked dead, the stop flag not set.
CliStopsWithoutStopFlag(how) ==
    /\ client_connected' = FALSE
    /\ pcCli' = "done"
    /\ cliExit' = how
    /\ UNCHANGED should_stop

\* The disconnect check, and both except clauses of the client loop: both
\* flags, and the loop is left.
CliStops(how) ==
    /\ client_connected' = FALSE
    /\ should_stop' = TRUE
    /\ pcCli' = "done"
    /\ cliExit' = how

\* Back to the loop condition, with neither flag written.
CliLoops ==
    /\ pcCli' = IF CliLoopGoesOn(should_stop, client_connected) THEN "recv" ELSE "done"
    /\ cliExit' = IF CliLoopGoesOn(should_stop, client_connected) THEN cliExit ELSE "loop"
    /\ UNCHANGED << should_stop, client_connected >>

\* The frame put in front of those written before.
CliForwardNewestFirst(frame) ==
    IF provConn = "open"
    THEN /\ provOut' = <<frame>> \o provOut
         /\ CliLoops
    ELSE /\ CliStops("exception")
         /\ UNCHANGED provOut

\* A failed write to the provider ending the loop with the stop flag only.
CliForwardFailureKeepsClient(frame) ==
    IF provConn = "open"
    THEN /\ provOut' = Append(provOut, frame)
         /\ CliLoops
    ELSE /\ should_stop' = TRUE
         /\ pcCli' = "done"
         /\ cliExit' = "exception"
         /\ UNCHANGED << client_connected, provOut >>

\* await elevenlabs_ws.send(frame), then on to the loop condition; the write
\* raises when the provider connection is no longer open.
CliForward(frame) ==
    IF provConn = "open"
    THEN /\ provOut' = Append(provOut, frame)
         /\ CliLoops
    ELSE /\ CliStops("exception")
         /\ UNCHANGED provOut

\* --------------------------------------------------- receive_from_client
\* websocket.receive() returned a frame (or raised): the loop body, and the loop
\* condition.
ClientRecv(f) ==
    /\ pcCli = "recv"
    /\ nCli < env.maxCli
    /\ nCli' = nCli + 1
    /\ CASE CliBranch(f) = "disconnect" ->
              /\ CliStops("disconnect")
              /\ UNCHANGED << current_mode, accumulated_transcript, provOut >>
         [] CliBranch(f) = "raise" ->
              /\ CliStops("exception")
              /\ UNCHANGED << current_mode, accumulated_transcript, provOut >>
         [] CliBranch(f) = "audio" ->
              /\ CliForward(AudioChunk(nCli + 1))
              /\ UNCHANGED << current_mode, accumulated_transcript >>
         [] CliBranch(f) = "commit" ->
              /\ CliForward(CommitMsg(nCli + 1))
              /\ UNCHANGED << current_mode, accumulated_transcript >>
         [] CliBranch(f) = "set_mode" ->
              /\ current_mode' = SetMode(f)
              /\ CliLoops
              /\ UNCHANGED << accumulated_transcript, provOut >>
         [] CliBranch(f) = "clear" ->
              /\ accumulated_transcript' = <<>>
              /\ CliLoops
              /\ UNCHANGED << current_mode, provOut >>
         [] CliBranch(f) = "ignore" ->
              /\ CliLoops
              /\ UNCHANGED << current_mode, accumulated_transcript, provOut >>
    /\ UNCHANGED << env, call, hasKey, pcMain, pcProv, provConn, clientConn, pendingText,
                    pendingSeg, tasks, clientLog, guardWrites, guardDropped,
                    sendFailed, connectAttempts, nProv, finalSegs, provExit >>

\* The timeout taken as the end of the loop: break instead of continue.
ClientTimeoutBreaks ==
    /\ pcCli = "recv"
    /\ pcCli' = "done"
    /\ cliExit' = "loop"
    /\ UNCHANGED << should_stop, client_connected >>
    /\ UNCHANGED << env, call, hasKey, pcMain, pcProv, current_mode, accumulated_transcript,
                    provConn, clientConn, pendingText, pendingSeg, tasks, clientLog,
                    provOut, guardWrites, guardDropped, sendFailed, connectAttempts,
                    nProv, nCli, finalSegs, provExit >>

\* asyncio.TimeoutError after 30 s without a frame: continue, to the loop condition.
ClientTimeout ==
    /\ pcCli = "recv"
    /\ CliLoops
    /\ UNCHANGED << env, call, hasKey, pcMain, pcProv, current_mode, accumulated_transcript,
                    provConn, clientConn, pendingText, pendingSeg, tasks, clientLog,
                    provOut, guardWrites, guardDropped, sendFailed, connectAttempts,
                    nProv, nCli, finalSegs, provExit >>

\* ------------------------------------------------------------ JSON values
\* A JSON value is <<type, literal>>, so that a field of the wrong type is a value
\* like any other: a string is its text, anything else its literal.
Str(text) == << "str", text >>
Num(lit) == << "num", << lit >> >>
List(items) == << "list", items >>
Bool(lit) == << "bool", << lit >> >>
Null == << "null", <<>> >>

\* -------------------------------------------------------- gemini_service
\* The fallback with the transcript trimmed.
create_fallback_response_stripped(raw_transcript, error) ==
    [ error |-> Str(<<error>>),
      detected_languages |-> List(<<"unknown">>),
      raw_transcript |-> Str(strip(raw_transcript)),
      cleaned_english_meaning |-> Str(strip(raw_transcript)),
      prompt_ready_english |-> Str(strip(raw_transcript)),
      removed_fillers |-> Bool("false"),
      meaning_change_risk |-> Str(<<"high">>),
      entities |-> List(<<>>),
      confidence_score |-> Num("0") ]

\* create_fallback_response(raw_transcript, error)
create_fallback_response(raw_transcript, error) ==
    [ error |-> Str(<<error>>),
      detected_languages |-> List(<<"unknown">>),
      raw_transcript |-> Str(raw_transcript),
      cleaned_english_meaning |-> Str(raw_transcript),
      prompt_ready_english |-> Str(raw_transcript),
      removed_fillers |-> Bool("false"),
      meaning_change_risk |-> Str(<<"high">>),
      entities |-> List(<<>>),
      confidence_score |-> Num("0") ]

\* The dict returned when get_gemini_api_key() is empty (it has no removed_fillers).
NoKeyResult(raw_transcript) ==
    [ error |-> Str(<<"Gemini API key not configured">>),
      raw_transcript |-> Str(raw_transcript),
      cleaned_english_meaning |-> Str(raw_transcript),
      prompt_ready_english |-> Str(raw_transcript),
      detected_languages |-> List(<<"unknown">>),
      meaning_change_risk |-> Str(<<"high">>),
      entities |-> List(<<>>),
      confidence_score |-> Num("0") ]

\* An output that conforms to TranscriptOutput, echoing `echo` as raw_transcript.
ValidOutput(echo) ==
    [ detected_languages |-> List(<<"english">>),
      raw_transcript |-> Str(echo),
      cleaned_english_meaning |-> Str(<<"c">>),
      prompt_ready_english |-> Str(<<"p">>),
      removed_fillers |-> Bool("true"),
      meaning_change_risk |-> Str(<<"low">>),
      entities |-> List(<<>>),
      confidence_score |-> Num("0.9") ]

\* d without the key k
Without(d, k) == [ x \in DOMAIN d \ {k} |-> d[x] ]

\* The objects json.loads(text) can yield for a transcript: conforming, echoing
\* another text, without the echo, and four that violate the schema.
ObjectNames ==
    { "valid", "echo_other", "no_echo", "no_cleaned", "bad_risk", "bad_confidence",
      "null_cleaned" }

GeminiObject(name, raw) ==
    CASE name = "valid" -> ValidOutput(raw)
      [] name = "echo_other" -> ValidOutput(<<"z">>)
      [] name = "no_echo" -> Without(ValidOutput(raw), "raw_transcript")
      [] name = "no_cleaned" -> Without(ValidOutput(raw), "cleaned_english_meaning")
      [] name = "bad_risk" ->
           [ ValidOutput(raw) EXCEPT !.meaning_change_risk = Str(<<"extreme">>) ]
      [] name = "bad_confidence" ->
           [ ValidOutput(raw) EXCEPT !.confidence_score = Str(<<"high">>) ]
      [] name = "null_cleaned" ->
           [ ValidOutput(raw) EXCEPT !.cleaned_english_meaning = Null ]

\* What the call of the service comes to:
\*   "status"         response.status_code != 200
\*   "no_candidates"  no candidates in the response
\*   "no_parts"       no parts in the first candidate
\*   "bad_json"       the text is not JSON
\*   "nonobject"      the text is JSON but no object
\*   "object"         the text is the JSON object named `out`
\*   "timeout"        httpx.TimeoutException
\*   "transport"      any other exception
Response(kind, out) == [kind |-> kind, out |-> out]

GeminiResponses ==
    { Response(k, "") : k \in { "status", "no_candidates", "no_parts", "bad_json",
                                "nonobject", "timeout", "transport" } }
    \cup { Response("object", o) : o \in ObjectNames }

\* system_prompt = STRICT_SYSTEM_PROMPT if mode == ProcessingMode.STRICT else BALANCED_SYSTEM_PROMPT
SystemPrompt(mode) ==
    IF mode = STRICT THEN "STRICT_SYSTEM_PROMPT" ELSE "BALANCED_SYSTEM_PROMPT"

\* value[:50] works on a string or a list, and raises TypeError on anything else.
Sliceable(value) == value[1] \in {"str", "list"}

\* The service's output returned as it came, its echo of the transcript trusted.
OverwriteNothing(output, raw_transcript) == output

\* output["raw_transcript"] = raw_transcript
Overwrite(output, raw_transcript) ==
    [ k \in DOMAIN output \cup {"raw_transcript"} |->
        IF k = "raw_transcript" THEN Str(raw_transcript) ELSE output[k] ]

\* process_transcript(raw_transcript, mode), from the request on, given what the
\* service did.
process_transcript(raw_transcript, r) ==
    CASE r.kind = "status" -> create_fallback_response(raw_transcript, "API error")
      [] r.kind = "no_candidates" ->
           create_fallback_response(raw_transcript, "No response from Gemini")
      [] r.kind = "no_parts" ->
           create_fallback_response(raw_transcript, "Empty response from Gemini")
      [] r.kind = "bad_json" ->
           create_fallback_response(raw_transcript, "Invalid JSON from Gemini")
      [] r.kind = "timeout" -> create_fallback_response(raw_transcript, "API timeout")
      [] r.kind = "transport" -> create_fallback_response(raw_transcript, "str(e)")
         \* item assignment on a list, a string, a number or None raises TypeError
      [] r.kind = "nonobject" -> create_fallback_response(raw_transcript, "str(e)")
         \* the log line slices output.get('cleaned_english_meaning', ''): TypeError
         \* unless that is a string or a list
      [] r.kind = "object" ->
           IF Sliceable(Get(GeminiObject(r.out, raw_transcript), "cleaned_english_meaning", Str(<<>>)))
           THEN Overwrite(GeminiObject(r.out, raw_transcript), raw_transcript)
           ELSE create_fallback_response(raw_transcript, "str(e)")

\* ---------------------------------------------------- process_with_gemini
\* The message without the projection of the result's error.
MsgGeminiResultDropsError(t, transcript, result) ==
    [ type |-> "gemini_result",
      task |-> t,
      raw_transcript |-> Get(result, "raw_transcript", Str(transcript)),
      cleaned_meaning |-> Get(result, "cleaned_english_meaning", Str(transcript)),
      prompt_ready |-> Get(result, "prompt_ready_english", Str(transcript)),
      detected_languages |-> Get(result, "detected_languages", List(<<>>)),
      risk_level |-> Get(result, "meaning_change_risk", Str(<<"unknown">>)),
      entities |-> Get(result, "entities", List(<<>>)),
      confidence |-> Get(result, "confidence_score", Num("0")),
      error |-> Null ]

\* The gemini_result message built from `result` for task t of `transcript`.
MsgGeminiResult(t, transcript, result) ==
    [ type |-> "gemini_result",
      task |-> t,
      raw_transcript |-> Get(result, "raw_transcript", Str(transcript)),
      cleaned_meaning |-> Get(result, "cleaned_english_meaning", Str(transcript)),
      prompt_ready |-> Get(result, "prompt_ready_english", Str(transcript)),
      detected_languages |-> Get(result, "detected_languages", List(<<>>)),
      risk_level |-> Get(result, "meaning_change_risk", Str(<<"unknown">>)),
      entities |-> Get(result, "entities", List(<<>>)),
      confidence |-> Get(result, "confidence_score", Num("0")),
      error |-> Get(result, "error", Null) ]

\* The frames and the service's answers a session of `env` draws from.
EnvProvFrames ==
    CASE env.frames = "all" -> ProviderFrames
      [] env.frames = "core" -> CoreProviderFrames
      [] env.frames = "mode" -> ModeProviderFrames
      [] env.frames = "accumulate" -> AccumulateProviderFrames
      [] env.frames = "audio" -> ModeProviderFrames
      [] env.frames = "order" -> OrderProviderFrames

EnvCliFrames ==
    CASE env.frames = "all" -> ClientFrames
      [] env.frames = "core" -> CoreClientFrames
      [] env.frames = "mode" -> ModeClientFrames
      [] env.frames = "accumulate" -> AccumulateClientFrames
      [] env.frames = "audio" -> AudioClientFrames
      [] env.frames = "order" -> AudioClientFrames

EnvResponses ==
    IF env.frames = "all"
    THEN { Response("timeout", ""), Response("object", "echo_other") }
    ELSE { Response("object", "echo_other") }

\* if not transcript.strip() or not client_connected: return
TaskReturnsEarly(transcript) == strip(transcript) = <<>> \/ ~client_connected

taskVars == << env, call, hasKey, pcMain, pcProv, pcCli, should_stop, current_mode,
               accumulated_transcript, provConn, clientConn, pendingText,
               pendingSeg, provOut, connectAttempts, nProv, nCli, finalSegs,
               provExit, cliExit >>

\* The task starts to run: the early return, or the `processing` send.
TaskStart(t) ==
    /\ tasks[t].pc = "created"
    /\ IF TaskReturnsEarly(tasks[t].text)
       THEN /\ tasks' = [tasks EXCEPT ![t].pc = "done"]
            /\ UNCHANGED guardVars
       ELSE /\ \E ok \in BOOLEAN : safe_send(MsgProcessing(t), ok)
            /\ tasks' = [tasks EXCEPT ![t].pc = "processing_sent"]
    /\ UNCHANGED taskVars

\* The mode handed to process_transcript being the one current at the dispatch.
TaskCallModeAtDispatch(t) ==
    /\ tasks[t].pc = "processing_sent"
    /\ \E gemini_api \in BOOLEAN :
         IF ~gemini_api
         THEN /\ \E ok \in BOOLEAN :
                   safe_send(MsgGeminiResult(t, tasks[t].text, NoKeyResult(tasks[t].text)), ok)
              /\ tasks' = [tasks EXCEPT ![t].pc = "done"]
         ELSE /\ tasks' = [tasks EXCEPT ![t].pc = "calling",
                                        ![t].mode = SystemPrompt(tasks[t].at)]
              /\ UNCHANGED guardVars
    /\ UNCHANGED taskVars

\* The `processing` send has returned: process_transcript(transcript, current_mode).
\* Without the Gemini credential it returns at once and the result is sent;
\* with it the request is posted under the prompt of the current mode.
TaskCall(t) ==
    /\ tasks[t].pc = "processing_sent"
    /\ \E gemini_api \in BOOLEAN :
         IF ~gemini_api
         THEN /\ \E ok \in BOOLEAN :
                   safe_send(MsgGeminiResult(t, tasks[t].text, NoKeyResult(tasks[t].text)), ok)
              /\ tasks' = [tasks EXCEPT ![t].pc = "done"]
         ELSE /\ tasks' = [tasks EXCEPT ![t].pc = "calling",
                                        ![t].mode = SystemPrompt(current_mode)]
              /\ UNCHANGED guardVars
    /\ UNCHANGED taskVars

\* The request has ended (at most 30 s): the result is sent.
TaskResult(t) ==
    /\ tasks[t].pc = "calling"
    /\ \E r \in EnvResponses, ok \in BOOLEAN :
         safe_send(MsgGeminiResult(t, tasks[t].text, process_transcript(tasks[t].text, r)), ok)
    /\ tasks' = [tasks EXCEPT ![t].pc = "done"]
    /\ UNCHANGED taskVars

TaskStep(t) == TaskStart(t) \/ TaskCall(t) \/ TaskResult(t)

\* ---------------------------------------------------------- specification
\* Every frame of either peer, within the bounds; a request to the service that
\* times out, or answers with a conforming object echoing another text.
FullEnv == [ maxProv |-> MaxProviderEvents, maxCli |-> MaxClientFrames, frames |-> "all" ]

Init == InitWith(FullEnv)

Next ==
    \/ MainStep
    \/ \E f \in EnvProvFrames : ProvRecv(f)
    \/ ProvAfterFinal
    \/ ProvSeesClosed
    \/ ProviderDrops
    \/ \E f \in EnvCliFrames : ClientRecv(f)
    \/ ClientTimeout
    \/ \E t \in DOMAIN tasks : TaskStep(t)

Spec == Init /\ [][Next]_vars

\* The event loop runs every coroutine that can run: the handler, the provider
\* loop once its send has returned or its connection is gone, the client loop's
\* 30 s read timeout, and every task (the request to the service ends within its
\* own 30 s timeout).  Frames from either peer are not promised.
SessionFair ==
    /\ WF_vars(MainStep)
    /\ WF_vars(ProvAfterFinal)
    /\ WF_vars(ProvSeesClosed)
    /\ WF_vars(ClientTimeout)
    /\ WF_vars(\E t \in DOMAIN tasks : TaskStep(t))

CoreEnv == [ maxProv |-> MaxProviderEvents, maxCli |-> MaxClientFrames, frames |-> "core" ]

FairSpec == InitWith(CoreEnv) /\ [][Next]_vars /\ SessionFair

\* A session whose client sends set_mode messages around one final transcript.
ModeEnv == [ maxProv |-> MaxProviderEvents, maxCli |-> MaxClientFrames + 1, frames |-> "mode" ]

ModeSpec == InitWith(ModeEnv) /\ [][Next]_vars

\* A session of two final transcripts and a `clear`.
AccumulateEnv ==
    [ maxProv |-> MaxProviderEvents + 1, maxCli |-> MaxClientFrames, frames |-> "accumulate" ]

AccumulateSpec == InitWith(AccumulateEnv) /\ [][Next]_vars

\* A session long enough for audio, audio, `stop`, and a final transcript.
AudioEnv ==
    [ maxProv |-> MaxProviderEvents, maxCli |-> MaxClientFrames + 2, frames |-> "audio" ]

AudioSpec == InitWith(AudioEnv) /\ [][Next]_vars

\* A session of two relayed provider events and two forwarded client frames.
OrderEnv ==
    [ maxProv |-> MaxProviderEvents + 1, maxCli |-> MaxClientFrames + 1, frames |-> "order" ]

OrderSpec == InitWith(OrderEnv) /\ [][Next]_vars

\* The provider goes on to deliver a frame or to end the connection.
ProviderFair == WF_vars(ProviderDrops \/ \E f \in EnvProvFrames : ProvRecv(f))

\* ------------------------------------------- process_transcript on its own
\* Everything of a session, which a call of process_transcript leaves alone.
sessionState == << env, hasKey, pcMain, pcProv, pcCli, should_stop, client_connected,
                   current_mode, accumulated_transcript, provConn, clientConn,
                   pendingText, pendingSeg, tasks, clientLog, provOut, guardWrites,
                   guardDropped, sendFailed, connectAttempts, nProv, nCli, finalSegs,
                   provExit, cliExit >>

\* process_transcript(raw_transcript, mode) is called: without the credential it
\* returns at once; with it the prompt is selected and the request posted.
ProcessTranscriptCall ==
    /\ call.pc = "idle"
    /\ \E raw_transcript \in Texts, mode \in {STRICT, BALANCED}, gemini_api \in BOOLEAN :
         call' = IF ~gemini_api
                 THEN [ pc |-> "returned", raw_transcript |-> raw_transcript,
                        system_prompt |-> "none", outcome |-> Response("no_key", ""),
                        result |-> NoKeyResult(raw_transcript) ]
                 ELSE [ pc |-> "request", raw_transcript |-> raw_transcript,
                        system_prompt |-> SystemPrompt(mode) ]
    /\ UNCHANGED sessionState

\* The request has ended, in one of the ways it can: the dict is returned.
ProcessTranscriptReturn ==
    /\ call.pc = "request"
    /\ \E r \in GeminiResponses :
         call' = [ pc |-> "returned", raw_transcript |-> call.raw_transcript,
                   system_prompt |-> call.system_prompt, outcome |-> r,
                   result |-> process_transcript(call.raw_transcript, r) ]
    /\ UNCHANGED sessionState

\* No frames: the session stays where it was accepted.
ServiceEnv == [ maxProv |-> 0, maxCli |-> 0, frames |-> "core" ]

ServiceNext == ProcessTranscriptCall \/ ProcessTranscriptReturn

\* Calls of process_transcript with every text, mode, credential and outcome.
ServiceSpec == InitWith(ServiceEnv) /\ [][ServiceNext]_vars

\* ------------------------------------------------------------- the states
Closed == pcMain = "closed"
Active == pcMain = "gather" /\ ~(pcProv = "done" /\ pcCli = "done")
Draining == (pcMain = "gather" /\ pcProv = "done" /\ pcCli = "done") \/ pcMain = "closing"

\* ------------------------------------------------------------- the claims
TasksOf(seg) == { t \in DOMAIN tasks : tasks[t].seg = seg }

EmptyFinalFrames == { f \in ProviderFrames : ProvBranch(f) = "skip" /\ f.mtype \in {T_COMMITTED, T_COMMITTED_TS} }

C2_DeadStateIsPermanent ==
    [][~client_connected =>
         /\ ~client_connected'
         /\ guardWrites' = guardWrites
         /\ clientLog' = clientLog]_vars

\* A safe_send write failed, and a later safe_send call returned at the guard.
C2_Witness == sendFailed /\ guardDropped # "never"

\* C3: once the handler has returned, nothing is written to the client, whatever
\* the tasks still in flight do.
C3_NoWriteAfterClosed ==
    [][Closed => (clientLog' = clientLog /\ guardWrites' = guardWrites)]_vars

\* After the handler returned, a task that was in flight called safe_send.
C3_Witness == Closed /\ guardDropped = "closed"

\* C4: when the handler has returned, a provider connection that was opened is
\* closed, and without the credential or after a failed handshake there is none.
C4_ProviderClosedAtClosed ==
    /\ Closed => provConn \in {"none", "closed"}
    /\ ~hasKey => (provConn = "none" /\ connectAttempts = 0)
    /\ pcMain = "handler_sent" => provConn = "none"

\* The session ran, both loops ended, and the provider connection was closed.
C4_Witness == Closed /\ provConn = "closed" /\ pcProv = "done" /\ pcCli = "done"

IsFinalTranscript(m, seg, text) ==
    m.type = "transcript" /\ m.is_final /\ m.ev = seg /\ m.text = text

IsResultOf(m, t) == m.type = "gemini_result" /\ m.task = t

\* C5: a gemini_result in the client's log is that of a dispatched task, carries
\* the task's segment text as raw_transcript, and comes after the task's
\* `processing`, which comes after the final transcript of the segment; no task
\* has two of either; and a handled final segment leads to its gemini_result in
\* the log unless the client is marked dead.
C5_TranscriptProcessingResult ==
    /\ [](\A i \in DOMAIN clientLog :
            /\ clientLog[i].type \in {"processing", "gemini_result"} =>
                 /\ clientLog[i].task \in DOMAIN tasks
                 /\ \E k \in 1..(i - 1) :
                      IsFinalTranscript(clientLog[k], tasks[clientLog[i].task].seg,
                                        tasks[clientLog[i].task].text)
                 /\ \A j \in DOMAIN clientLog :
                      (clientLog[j].type = clientLog[i].type
                         /\ clientLog[j].task = clientLog[i].task) => j = i
            /\ clientLog[i].type = "gemini_result" =>
                 /\ clientLog[i].raw_transcript = Str(tasks[clientLog[i].task].text)
                 /\ \E j \in 1..(i - 1) : clientLog[j] = MsgProcessing(clientLog[i].task))
    /\ \A s \in 1..MaxProviderEvents :
         (s \in finalSegs)
           ~> (~client_connected
                 \/ \E i \in DOMAIN clientLog, t \in TasksOf(s) : IsResultOf(clientLog[i], t))

\* The three messages of a segment are in the client's log.
C5_Witness ==
    \E i \in DOMAIN clientLog : clientLog[i].type = "gemini_result"

MalformedClientFrames ==
    { f \in ClientFrames :
        f.kind = "text" /\ (f.json # "object" \/ f.type \notin {"stop", "set_mode", "clear"}) }

\* C6: a client text frame that is no well-formed control message changes neither
\* the mode, the accumulated transcript nor either flag, sends nothing, and the
\* client loop reads on.
C6_MalformedControlIgnored ==
    [][\A f \in MalformedClientFrames :
         ClientRecv(f) =>
           /\ UNCHANGED << current_mode, accumulated_transcript, should_stop,
                           client_connected, provOut, clientLog >>
           /\ CliLoopGoesOn(should_stop, client_connected) => pcCli' = "recv"]_vars

MalformedProviderFrames ==
    { f \in ProviderFrames :
        \/ f.json # "object"
        \/ f.mkind # "str"
        \/ /\ f.mtype \notin {T_SESSION_STARTED, T_PARTIAL, T_COMMITTED, T_COMMITTED_TS}
           /\ ~ContainsError(f.mtype)
        \/ /\ f.mtype \in {T_PARTIAL, T_COMMITTED, T_COMMITTED_TS}
           /\ f.tkind # "str" }

\* C7: a malformed or unrecognized provider frame that the loop handles changes
\* nothing, and the provider loop waits for the next frame.
C7_MalformedProviderFrameDropped ==
    [][\A f \in MalformedProviderFrames :
         (ProvRecv(f) /\ ~ProvBreak) =>
           /\ pcProv' = "wait"
           /\ UNCHANGED << sessionVars, clientLog, guardWrites, tasks, provOut >>]_vars

\* C8: once the provider connection has dropped under a running session, the
\* session reaches Closed, by the session's own steps.
C8_ProviderDropLeadsToClosed ==
    (pcMain = "gather" /\ provConn = "dropped") ~> Closed

DisconnectFrames == { f \in ClientFrames : f.kind \in {"disconnect", "raises"} }

ClientGone == pcCli = "done" /\ cliExit \in {"disconnect", "exception"}

\* C9, as stated: a disconnect sets the stop flag and marks the client dead in one
\* step, and the session then reaches Closed by its own steps alone.
C9_DisconnectLeadsToClosed ==
    /\ [][\A f \in DisconnectFrames :
            ClientRecv(f) => (should_stop' /\ ~client_connected' /\ pcCli' = "done")]_vars
    /\ ClientGone ~> Closed

\* C9, amended: the same, provided the provider goes on to deliver a frame or to
\* end its connection; the provider loop reads the flags only when a frame arrives.
C9_DisconnectLeadsToClosedIfProviderActs ==
    /\ [][\A f \in DisconnectFrames :
            ClientRecv(f) => (should_stop' /\ ~client_connected' /\ pcCli' = "done")]_vars
    /\ ProviderFair => (ClientGone ~> Closed)

\* The client disconnected while the provider loop was still running, and the
\* session is Closed with the provider loop out by its stop check.
C9_Witness == Closed /\ cliExit = "disconnect" /\ provExit = "break"

\* C10, as stated: without the credential the client gets exactly the one
\* configuration error and its connection is closed; nothing else happens.
C10_MissingCredentialOneError ==
    (~hasKey /\ Closed) =>
        /\ clientLog = << MsgConfigError >>
        /\ clientConn = "closed"
        /\ connectAttempts = 0
        /\ pcProv = "idle" /\ pcCli = "idle" /\ tasks = <<>>

\* C10, amended: without the credential no connection to the provider is tried,
\* no loop and no task runs, and the client is sent the configuration error and
\* nothing else; when that write succeeds the connection is then closed, when it
\* fails the handler returns with nothing delivered and no close.
C10_MissingCredentialAtMostOneError ==
    ~hasKey =>
        /\ connectAttempts = 0
        /\ provConn = "none"
        /\ pcProv = "idle" /\ pcCli = "idle" /\ tasks = <<>>
        /\ guardWrites = 0
        /\ clientLog \in { <<>>, << MsgConfigError >> }
        /\ pcMain = "nokey_sent" => clientLog = << MsgConfigError >>
        /\ Closed => (clientConn = "closed" <=> clientLog = << MsgConfigError >>)
        /\ ~Closed => clientConn = "open"

\* Without the credential: the error was delivered, the connection closed.
C10_Witness ==
    ~hasKey /\ Closed /\ clientLog = << MsgConfigError >> /\ clientConn = "closed"

\* The handshake with the provider has failed: the connect call is over and no
\* provider connection exists.
HandshakeFailed == hasKey /\ connectAttempts = 1 /\ provConn = "none" /\ pcMain # "connecting"

HandshakeErrors == { MsgHandshakeError(d) : d \in {"ElevenLabs HTTP status", "exception text"} }

\* C11, as stated: after a failed handshake the client has exactly one message, an
\* `error` with the detail; no loop was started, no task dispatched, and the
\* handler goes to Closed.
C11_HandshakeFailureOneError ==
    HandshakeFailed =>
        /\ \E m \in HandshakeErrors : clientLog = << m >>
        /\ pcProv = "idle" /\ pcCli = "idle" /\ tasks = <<>>
        /\ pcMain \in {"handler_sent", "closed"}

\* C11, amended: after a failed handshake the handler writes the `error` with the
\* detail once, directly; the client has that message when the write succeeded and
\* nothing when it failed.  No `connected` is sent (safe_send is never called), no
\* loop is started, no task dispatched, and the handler goes to Closed.
C11_HandshakeFailureAtMostOneError ==
    HandshakeFailed =>
        /\ \/ clientLog = <<>>
           \/ \E m \in HandshakeErrors : clientLog = << m >>
        /\ guardWrites = 0
        /\ pcProv = "idle" /\ pcCli = "idle" /\ tasks = <<>>
        /\ pcMain \in {"handler_sent", "closed"}

\* The handshake failed, the error was delivered and the handler returned.
C11_Witness ==
    HandshakeFailed /\ Closed /\ clientLog \in { << m >> : m \in HandshakeErrors }

\* The tasks whose request to the service has been made.
Requested == { t \in DOMAIN tasks : tasks[t].mode # "none" }

\* C12, as stated (its first case): the request of a task dispatched after a
\* set_mode "strict" was processed, the mode then being strict, is made under the
\* strict template.
C12_StrictAtDispatchUsesStrict ==
    \A t \in Requested : tasks[t].at = STRICT => tasks[t].mode = "STRICT_SYSTEM_PROMPT"

\* C12, amended: the mode is balanced until a set_mode is processed; a set_mode
\* makes it strict exactly when its mode is "strict", and nothing else changes it;
\* a task's request is made under the template of the mode current when the task
\* makes the request, after its `processing` send, whatever it was at the dispatch.
C12_TemplateOfModeAtRequest ==
    /\ [](nCli = 0 => current_mode = BALANCED)
    /\ [][/\ \A f \in ModeClientFrames :
               ClientRecv(f) => (current_mode' = IF f.mode = "strict" THEN STRICT ELSE BALANCED)
          /\ current_mode' # current_mode => \E f \in ModeClientFrames : ClientRecv(f)
          /\ \A t \in DOMAIN tasks :
               (tasks[t].mode = "none" /\ tasks'[t].mode # "none") =>
                   tasks'[t].mode = IF current_mode = STRICT THEN "STRICT_SYSTEM_PROMPT"
                                    ELSE "BALANCED_SYSTEM_PROMPT"
          /\ \A t \in Requested : tasks'[t].mode = tasks[t].mode
         ]_vars

\* A task dispatched in balanced mode made its request under the strict template,
\* after a set_mode "strict" that came between.
C12_Witness ==
    \E t \in Requested : tasks[t].at = BALANCED /\ tasks[t].mode = "STRICT_SYSTEM_PROMPT"

Returned == call.pc = "returned"

\* C13: whatever the text and whatever the service did, the dict process_transcript
\* returns has raw_transcript equal to the text it was called with.
C13_RawTranscriptIsInput ==
    Returned =>
        /\ "raw_transcript" \in DOMAIN call.result
        /\ call.result.raw_transcript = Str(call.raw_transcript)

\* The service echoed another text for a text with blanks around it, and the call
\* has returned.
C13_Witness ==
    /\ Returned
    /\ call.outcome = Response("object", "echo_other")
    /\ call.raw_transcript = << Blank, "b", Blank >>

\* The outputs that parse as an object but do not conform to TranscriptOutput.
SchemaViolations == { "no_cleaned", "bad_risk", "bad_confidence", "null_cleaned" }

\* The failures of the service: no credential, a status other than 200, no
\* candidates, no parts, a timeout, a transport error, and malformed output: text
\* that is no JSON or no JSON object.
FailureTrigger(o) == o.kind # "object"

\* The dict is the fallback for `raw`.
IsFallback(result, raw) ==
    /\ "error" \in DOMAIN result
    /\ result.error # Null
    /\ Get(result, "meaning_change_risk", Null) = Str(<<"high">>)
    /\ Get(result, "confidence_score", Null) = Num("0")
    /\ Get(result, "detected_languages", Null) = List(<<"unknown">>)
    /\ Get(result, "cleaned_english_meaning", Null) = Str(raw)
    /\ Get(result, "prompt_ready_english", Null) = Str(raw)

\* The gemini_result message carries a fallback for `raw`.
CarriesFallback(m, raw) ==
    /\ m.error # Null
    /\ m.risk_level = Str(<<"high">>)
    /\ m.confidence = Num("0")
    /\ m.cleaned_meaning = Str(raw)
    /\ m.prompt_ready = Str(raw)

\* C14: on every failure trigger process_transcript returns (each exception of
\* the request is caught) the fallback for its text, and the gemini_result built
\* from it carries the error, risk "high", confidence 0 and the text as both
\* meanings.
C14_FailureYieldsFallback ==
    (Returned /\ FailureTrigger(call.outcome)) =>
        /\ IsFallback(call.result, call.raw_transcript)
        /\ CarriesFallback(MsgGeminiResult(1, call.raw_transcript, call.result),
                           call.raw_transcript)

\* The request timed out, for a text with blanks around it, and the call returned.
C14_Witness ==
    /\ Returned
    /\ call.outcome = Response("timeout", "")
    /\ call.raw_transcript = << Blank, "b", Blank >>

\* C15: an output that parses but violates the schema, or is no object, is
\* answered with a fallback, error set, not returned as a success.
C15_SchemaViolationYieldsFallback ==
    (Returned /\ call.outcome.kind \in {"object", "nonobject"}
              /\ (call.outcome.kind = "object" => call.outcome.out \in SchemaViolations)) =>
        /\ "error" \in DOMAIN call.result
        /\ call.result.error # Null

\* The final transcripts with text left after trimming.
NonEmptyFinalFrames == { f \in ProviderFrames : ProvBranch(f) = "final" }

ClearFrames == { f \in ClientFrames : CliBranch(f) = "clear" }

\* The provider loop resumes after the send of a final transcript.
Appends == pcProv = "final_sent" /\ pcProv' # "final_sent"

\* C16: the accumulated transcript is empty when the session starts; a final
\* transcript the loop handles, with text left after trimming, is held until its
\* send has returned and is then appended once, as " " and the trimmed text,
\* whether or not the send succeeded; `clear` empties the transcript whatever it
\* held; and no other step changes it.
C16_AccumulatedTranscript ==
    /\ [](pcMain \in {"accept", "connecting", "connected_ok"} => accumulated_transcript = <<>>)
    /\ [][/\ \A f \in NonEmptyFinalFrames :
               (ProvRecv(f) /\ ~ProvBreak) =>
                   /\ pcProv' = "final_sent"
                   /\ pendingText' = strip(text_of(f))
                   /\ accumulated_transcript' = accumulated_transcript
          /\ pcProv = "final_sent" =>
               /\ pcProv' \in {"final_sent", "wait"}
               /\ pendingText' = pendingText
          /\ Appends =>
               accumulated_transcript' = accumulated_transcript \o <<Blank>> \o pendingText
          /\ \A f \in ClearFrames : ClientRecv(f) => accumulated_transcript' = <<>>
          /\ accumulated_transcript' # accumulated_transcript =>
               \/ Appends
               \/ \E f \in ClearFrames : ClientRecv(f)
         ]_vars

\* Two final transcripts were appended in the order they came, the second trimmed.
C16_Witness == accumulated_transcript = << Blank, "a", Blank, "b" >>

AudioFrames == { f \in ClientFrames : CliBranch(f) = "audio" }

StopFrames == { f \in ClientFrames : CliBranch(f) = "commit" }

\* C17: in an Active session every binary frame the client loop takes is written
\* to the provider as one audio chunk and every `stop` as one commit frame, after
\* what was written before; taking them sets neither flag and ends neither loop.
C17_AudioThenCommitForwarded ==
    [][\A f \in AudioFrames \cup StopFrames :
         (Active /\ ClientRecv(f)) =>
           /\ provOut' = Append(provOut, IF f \in StopFrames THEN CommitMsg(nCli + 1)
                                         ELSE AudioChunk(nCli + 1))
           /\ UNCHANGED << should_stop, client_connected, pcProv, provExit >>
           /\ CliLoopGoesOn(should_stop, client_connected) => pcCli' = "recv"]_vars

\* The tasks whose request to the service is in flight.
InFlight == { t \in DOMAIN tasks : tasks[t].pc = "calling" }

\* C18: the provider loop goes straight back to its read once a task is
\* dispatched, and can take the next frame whatever the tasks are doing; its steps
\* change no task that exists.
C18_ProviderLoopDoesNotWait ==
    /\ [](( pcProv = "wait" /\ provConn = "open" /\ nProv < env.maxProv)
            => ENABLED (\E f \in EnvProvFrames : ProvRecv(f)))
    /\ [][/\ Appends => pcProv' = "wait"
          /\ (Appends \/ nProv' # nProv) =>
               \A t \in DOMAIN tasks : tasks'[t] = tasks[t]
         ]_vars

\* The task of a later segment made its request and delivered its gemini_result
\* while the request of an earlier segment's task is still in flight.
C18_Witness ==
    \E a \in InFlight, b \in DOMAIN tasks :
        /\ tasks[a].seg < tasks[b].seg
        /\ tasks[b].pc = "done" /\ tasks[b].mode # "none"
        /\ \E i \in DOMAIN clientLog : IsResultOf(clientLog[i], b)
        /\ \A i \in DOMAIN clientLog : ~IsResultOf(clientLog[i], a)

\* The messages the provider loop writes: session_started, transcript, and the
\* provider's errors.
FromProviderLoop(m) ==
    m.type \in {"session_started", "transcript"} \/ (m.type = "error" /\ m.ev > 0)

\* C19: the provider loop's messages are in the client's log in the order of the
\* provider events they come from, one at most per event, and the frames written
\* to the provider are in the order of the client frames they come from, one at
\* most per frame, whatever the other loop and the tasks do in between.
C19_ForwardingKeepsSourceOrder ==
    /\ \A i, j \in DOMAIN clientLog :
         (i < j /\ FromProviderLoop(clientLog[i]) /\ FromProviderLoop(clientLog[j]))
            => clientLog[i].ev < clientLog[j].ev
    /\ \A i \in DOMAIN clientLog :
         FromProviderLoop(clientLog[i]) => clientLog[i].ev \in 1..nProv
    /\ \A i, j \in DOMAIN provOut : i < j => provOut[i].n < provOut[j].n
    /\ \A i \in DOMAIN provOut : provOut[i].n \in 1..nCli

\* Two provider events were relayed with a task's message between them, and two
\* client frames were forwarded.
C19_Witness ==
    /\ Len(provOut) = 2
    /\ \E i, j, k \in DOMAIN clientLog :
         /\ i < k /\ k < j
         /\ FromProviderLoop(clientLog[i]) /\ FromProviderLoop(clientLog[j])
         /\ clientLog[k].type \in {"processing", "gemini_result"}

\* The provider connection was opened and the `connected` send was not delivered:
\* nothing is in the client's log.
ConnectedNotDelivered == provConn # "none" /\ clientLog = <<>>

\* C20: once the provider connection is open, `connected` is the first message in
\* the client's log, it is there once, and every message of the loops and the
\* tasks comes after it; when `connected` was not delivered neither loop is
\* started, no task exists, and the handler goes to Closed.
C20_ConnectedComesFirst ==
    /\ [](\A i \in DOMAIN clientLog :
            /\ provConn # "none" => (clientLog[i] = MsgConnected <=> i = 1)
            /\ (FromProviderLoop(clientLog[i])
                  \/ clientLog[i].type \in {"processing", "gemini_result"})
                 => (i > 1 /\ clientLog[1] = MsgConnected))
    /\ [](provConn = "none" => \A i \in DOMAIN clientLog : clientLog[i] # MsgConnected)
    /\ [](ConnectedNotDelivered =>
            /\ pcMain \in {"connected_failed", "closing", "closed"}
            /\ pcProv = "idle" /\ pcCli = "idle" /\ tasks = <<>>)
    /\ ConnectedNotDelivered ~> Closed

\* `connected` was delivered and messages of the provider loop and of a task
\* followed it.
C20_Witness ==
    /\ Len(clientLog) >= 3
    /\ clientLog[1] = MsgConnected
    /\ \E i, j \in DOMAIN clientLog :
         FromProviderLoop(clientLog[i]) /\ clientLog[j].type = "gemini_result"

\* The finally block has not run yet.
BeforeCleanup == pcMain \notin {"closing", "closed"}

\* C21: until cleanup the stop flag is set only with the client marked dead: a
\* step that sets it marks the client dead in the same step; the client loop
\* has ended only with the client marked dead; so once both loops have ended the
\* client is marked dead.
C21_StopImpliesClientDead ==
    /\ []((BeforeCleanup /\ should_stop) => ~client_connected)
    /\ [](pcCli = "done" => ~client_connected)
    /\ [](Draining => ~client_connected)
    /\ [][(BeforeCleanup /\ ~should_stop /\ should_stop' /\ BeforeCleanup')
            => ~client_connected']_vars

\* Both loops have ended, the client loop at its loop condition after a send to
\* the client had failed, with the stop flag not set.
C21_Witness ==
    Draining /\ BeforeCleanup /\ cliExit = "loop" /\ ~should_stop /\ ~client_connected


\* The tasks dispatched whose call to the service is still to come.
AwaitingCall == { t \in DOMAIN tasks : tasks[t].pc \in {"created", "processing_sent"} }

\* C22: the template of a task's request is fixed in the step that follows its
\* `processing` send, from the session mode of that moment, and is then not that
\* of the mode at the dispatch when the two differ; a set_mode taken by the client
\* loop while a dispatched task has yet to make its call changes the session mode
\* all the same, and so the template that task will use.
C22_ModeReadWhenCallIsMade ==
    [][/\ \A t \in DOMAIN tasks :
            (tasks[t].mode = "none" /\ tasks'[t].mode # "none") =>
               /\ tasks[t].pc = "processing_sent"
               /\ tasks'[t].mode = SystemPrompt(current_mode)
               /\ current_mode # tasks[t].at => tasks'[t].mode # SystemPrompt(tasks[t].at)
       /\ \A f \in ModeClientFrames :
            (AwaitingCall # {} /\ ClientRecv(f)) =>
               /\ current_mode' = SetMode(f)
               /\ \A t \in AwaitingCall : tasks'[t] = tasks[t] /\ tasks[t].mode = "none"
      ]_vars

\* A segment finalized in strict mode was requested under the balanced template:
\* a set_mode came between its dispatch and its call.
C22_Witness ==
    \E t \in Requested : tasks[t].at = STRICT /\ tasks[t].mode = "BALANCED_SYSTEM_PROMPT"


\* The `error` messages the endpoint sends.
IsErrorMsg(m) == m.type = "error"

\* The client loop left through `except Exception`.
ForwardFailed == cliExit = "exception"

\* C23: an audio chunk or a commit frame forwarded when the provider connection is
\* no longer open writes nothing to the provider or to the client, sets the stop
\* flag, marks the client dead and ends the client loop, the client's connection
\* still being open; after that the client is never marked alive again, no write
\* to the client is attempted and nothing more reaches it, `error` included.
C23_ForwardFailureSilencesClient ==
    /\ [][\A f \in AudioFrames \cup StopFrames :
            (ClientRecv(f) /\ provConn # "open") =>
               /\ should_stop' /\ ~client_connected'
               /\ pcCli' = "done" /\ cliExit' = "exception"
               /\ UNCHANGED << clientLog, provOut, clientConn, guardWrites >>]_vars
    /\ [](ForwardFailed => should_stop /\ ~client_connected /\ pcCli = "done")
    /\ [][ForwardFailed => UNCHANGED << clientLog, guardWrites >>]_vars

\* The provider connection dropped, the forward of a frame failed, and a message
\* for the client, whose connection is open, was dropped by the guard; no `error`
\* has reached the client.
C23_Witness ==
    /\ ForwardFailed /\ provConn = "dropped" /\ clientConn = "open"
    /\ guardDropped = "open"
    /\ \A i \in DOMAIN clientLog : ~IsErrorMsg(clientLog[i])

====
